---- MODULE Spec2Model ----
(***************************************************************************)
(* Model of replace_tls.py: the Metashape TLS replacement helper.         *)
(*                                                                         *)
(* A string is a sequence of one-character strings, so that trimming,     *)
(* case folding, formatting and ordering are computed character by        *)
(* character as Python computes them.  A 4x4 matrix is a tuple of four    *)
(* rows of four integers; the absent value None of a transform is the     *)
(* empty tuple, the absent value of an integer field is 0 (keys start at  *)
(* 1).                                                                     *)
(***************************************************************************)
EXTENDS Integers, Sequences, FiniteSets, TLC

VARIABLES
    point_clouds,           \* chunk.point_clouds, in project order
    group_transform,        \* group id -> transform of that PointCloudGroup
    cameras,                \* chunk.cameras, in the order the chunk lists them
    next_mask,              \* identity of the next mask object to be created
    folder,                 \* names of the files in the selected folder
    phase,                  \* position of the script
    e57_files,              \* sorted list of .e57 files
    fidx,                   \* index in e57_files of the file of this iteration
    loaded_by_name,         \* normalized label -> key of the first station
    existing_labels_lower,  \* working set of known labels
    src,                    \* key of the matched station of this iteration
    T_src_eff,              \* its effective transform, captured before import
    new_pcs,                \* keys of the point clouds the import added
    idx,                    \* enumerate() index in new_pcs
    fstate,                 \* file name -> per-file state reached (history)
    matched,                \* file name -> [ref: key of the station it matched,
                            \*               imported: the import was called]
    last,                   \* what the last step did (history)
    desired,                \* arguments and result of a _make_unique_label
    existing_lower,         \*   call made on its own
    label_out,
    src_pc, new_pc,         \* arguments of a mask transfer made on its own
    pairs,                  \* camera pairs the last transfer walked
    pre_cameras             \* chunk.cameras as it was before that transfer

vars == <<point_clouds, group_transform, cameras, next_mask, folder, phase,
          e57_files, fidx, loaded_by_name, existing_labels_lower, src,
          T_src_eff, new_pcs, idx, fstate, matched, last, desired,
          existing_lower, label_out, src_pc, new_pc, pairs, pre_cameras>>

chunkVars == <<point_clouds, group_transform, cameras, next_mask>>
driverVars == <<folder, phase, e57_files, fidx, loaded_by_name,
                existing_labels_lower, src, T_src_eff, new_pcs, idx, fstate,
                matched>>
labelVars == <<desired, existing_lower, label_out>>
maskVars == <<src_pc, new_pc, pairs, pre_cameras>>

-----------------------------------------------------------------------------
(* Strings *)

Upper == {"A", "B", "E"}
LowerOf == [c \in Upper |-> CASE c = "A" -> "a" [] c = "B" -> "b" [] c = "E" -> "e"]

\* str.lower() on one character
LowerChar(c) == IF c \in Upper THEN LowerOf[c] ELSE c

\* str.lower()
Lower(s) == [i \in 1..Len(s) |-> LowerChar(s[i])]

IsSpace(c) == c = " "

RECURSIVE LStrip(_)
LStrip(s) == IF s # <<>> /\ IsSpace(Head(s)) THEN LStrip(Tail(s)) ELSE s

RECURSIVE RStrip(_)
RStrip(s) ==
    IF s # <<>> /\ IsSpace(s[Len(s)]) THEN RStrip(SubSeq(s, 1, Len(s) - 1)) ELSE s

\* str.strip()
Strip(s) == RStrip(LStrip(s))

\* _norm_name: (s or "").strip().lower()
_norm_name(s) == Lower(Strip(s))

\* Unicode code point of a character of the model's alphabet
Code(c) ==
    CASE c = " " -> 32 [] c = "." -> 46
      [] c = "0" -> 48 [] c = "1" -> 49 [] c = "2" -> 50 [] c = "3" -> 51
      [] c = "4" -> 52 [] c = "5" -> 53 [] c = "6" -> 54 [] c = "7" -> 55
      [] c = "8" -> 56 [] c = "9" -> 57
      [] c = "A" -> 65 [] c = "B" -> 66 [] c = "E" -> 69
      [] c = "_" -> 95
      [] c = "a" -> 97 [] c = "b" -> 98 [] c = "e" -> 101
      [] c = "n" -> 110 [] c = "w" -> 119

\* Python's str < str: lexicographic on code points
RECURSIVE StrLess(_, _)
StrLess(a, b) ==
    IF b = <<>> THEN FALSE
    ELSE IF a = <<>> THEN TRUE
    ELSE IF Code(Head(a)) # Code(Head(b)) THEN Code(Head(a)) < Code(Head(b))
    ELSE StrLess(Tail(a), Tail(b))

Digit(d) == <<"0", "1", "2", "3", "4", "5", "6", "7", "8", "9">>[d + 1]

\* str(i) for i >= 0
RECURSIVE Decimal(_)
Decimal(i) == IF i < 10 THEN <<Digit(i)>> ELSE Decimal(i \div 10) \o <<Digit(i % 10)>>

\* f"{i:02d}": at least two digits, zero padded on the left
Fmt02d(i) == IF i < 10 THEN <<"0">> \o Decimal(i) ELSE Decimal(i)

-----------------------------------------------------------------------------
(* _make_unique_label *)

\* f"{desired}_{i:02d}"
Candidate(d, i) == d \o <<"_">> \o Fmt02d(i)

\* the while True loop of _make_unique_label, entered with counter i
RECURSIVE UniqueLoop(_, _, _)
UniqueLoop(d, existing, i) ==
    IF Lower(Candidate(d, i)) \notin existing
    THEN Candidate(d, i)
    ELSE UniqueLoop(d, existing, i + 1)

\* a slip in the first suffix tried: the counter starts at 1
MakeUniqueLabelFromOne(d, existing) ==
    IF Lower(d) \notin existing THEN d ELSE UniqueLoop(d, existing, 1)

_make_unique_label(d, existing) ==
    IF Lower(d) \notin existing THEN d ELSE UniqueLoop(d, existing, 2)

-----------------------------------------------------------------------------
(* Matrices: Metashape.Matrix, 4x4 *)

None == <<>>          \* a transform that is absent
NoGroup == 0          \* pc.group is None
NoKey == 0            \* an integer link field that is absent

Idx == 1..4

I4 == <<<<1, 0, 0, 0>>, <<0, 1, 0, 0>>, <<0, 0, 1, 0>>, <<0, 0, 0, 1>>>>

\* one entry of A * B
Entry(A, B, r, c) ==
    A[r][1] * B[1][c] + A[r][2] * B[2][c] + A[r][3] * B[3][c] + A[r][4] * B[4][c]

MulRow(A, B, r) == <<Entry(A, B, r, 1), Entry(A, B, r, 2), Entry(A, B, r, 3), Entry(A, B, r, 4)>>

\* A * B
Mul(A, B) == <<MulRow(A, B, 1), MulRow(A, B, 2), MulRow(A, B, 3), MulRow(A, B, 4)>>

\* the three indices of Idx other than k, ascending
Others(k) == CASE k = 1 -> <<2, 3, 4>> [] k = 2 -> <<1, 3, 4>>
               [] k = 3 -> <<1, 2, 4>> [] k = 4 -> <<1, 2, 3>>

\* determinant of M with row r and column c struck out
Minor(M, r, c) ==
    LET i == Others(r)
        j == Others(c)
    IN    M[i[1]][j[1]] * (M[i[2]][j[2]] * M[i[3]][j[3]] - M[i[2]][j[3]] * M[i[3]][j[2]])
        - M[i[1]][j[2]] * (M[i[2]][j[1]] * M[i[3]][j[3]] - M[i[2]][j[3]] * M[i[3]][j[1]])
        + M[i[1]][j[3]] * (M[i[2]][j[1]] * M[i[3]][j[2]] - M[i[2]][j[2]] * M[i[3]][j[1]])

Sign(r, c) == IF (r + c) % 2 = 0 THEN 1 ELSE -1

Det(M) ==
      M[1][1] * Minor(M, 1, 1) - M[1][2] * Minor(M, 1, 2)
    + M[1][3] * Minor(M, 1, 3) - M[1][4] * Minor(M, 1, 4)

\* Matrix.inv() of an invertible matrix: adjugate over determinant.  The
\* matrices of the model have determinant 1 or -1, so the quotient is exact.
InvEntry(M, d, r, c) == (Sign(r, c) * Minor(M, c, r)) \div d

InvRow(M, d, r) == <<InvEntry(M, d, r, 1), InvEntry(M, d, r, 2), InvEntry(M, d, r, 3), InvEntry(M, d, r, 4)>>

Inv(M) ==
    LET d == Det(M) IN <<InvRow(M, d, 1), InvRow(M, d, 2), InvRow(M, d, 3), InvRow(M, d, 4)>>

Invertible(M) == M # None /\ Det(M) # 0

\* translation by one unit along x
Tx == <<<<1, 0, 0, 1>>, <<0, 1, 0, 0>>, <<0, 0, 1, 0>>, <<0, 0, 0, 1>>>>
\* rotation by a quarter turn about z
Rz == <<<<0, -1, 0, 0>>, <<1, 0, 0, 0>>, <<0, 0, 1, 0>>, <<0, 0, 0, 1>>>>
\* rotation by a quarter turn about x
Rx == <<<<1, 0, 0, 0>>, <<0, 0, -1, 0>>, <<0, 1, 0, 0>>, <<0, 0, 0, 1>>>>
\* a singular transform: scale 0 along y
Sing == <<<<1, 0, 0, 0>>, <<0, 0, 0, 0>>, <<0, 0, 1, 0>>, <<0, 0, 0, 1>>>>

-----------------------------------------------------------------------------
(* Point clouds and their transforms *)

\* A point cloud is a record
\*   [key, label, transform, group, enabled, is_laser_scan]

\* _effective_T
_effective_T(pc) ==
    IF pc.transform = None THEN None
    ELSE LET gT == IF pc.group # NoGroup THEN group_transform[pc.group] ELSE None
         IN  IF gT # None THEN Mul(gT, pc.transform) ELSE pc.transform

\* _apply_delta_to_pc_transform: pc.transform := delta * pc.transform
_apply_delta_to_pc_transform(pc, delta) ==
    IF pc.transform = None THEN pc
    ELSE [pc EXCEPT !.transform = Mul(delta, pc.transform)]

\* new_pc.group = src.group when the source has a group
AdoptGroup(new, source) ==
    IF source.group # NoGroup THEN [new EXCEPT !.group = source.group] ELSE new

\* delta = T_src_eff * T_new0_eff.inv(), given what inv() returned
Delta(Tsrc, inverse) == Mul(Tsrc, inverse)

\* new_pc.enabled = src.enabled
KeepEnabled(new, source) == [new EXCEPT !.enabled = source.enabled]

-----------------------------------------------------------------------------
(* Cameras, masks and the mask transfer *)

\* A camera is a record [key, label, point_cloud, dense_cloud_id, mask];
\* point_cloud holds the key of the point cloud object it refers to.
\* A mask is a record [present, id, content]: id is the identity of the
\* mask object, content stands for its pixels.

NoMask == [present |-> FALSE, id |-> 0, content |-> 0]

\* _copy_mask: mask_obj.copy(), a new object with the same content
_copy_mask(mask_obj, fresh) ==
    IF ~mask_obj.present THEN NoMask
    ELSE [present |-> TRUE, id |-> fresh, content |-> mask_obj.content]

\* _clear_camera_mask: cam.mask = None
_clear_camera_mask(cam) == [cam EXCEPT !.mask = NoMask]

\* _camera_belongs_to_pointcloud: the direct link, or else the identifier
_camera_belongs_to_pointcloud(cam, pc) ==
    IF cam.point_cloud = pc.key THEN TRUE
    ELSE IF cam.dense_cloud_id = pc.key THEN TRUE
    ELSE FALSE

\* a slip in the sort key: the label alone
SortKeyLessLabelOnly(a, b) == StrLess(a.label, b.label)

\* the sort key of _attached_cameras: (label, key), compared as tuples
SortKeyLess(a, b) ==
    \/ StrLess(a.label, b.label)
    \/ a.label = b.label /\ a.key < b.key

\* list.sort is stable: an element goes after the elements that are not
\* greater than it.  sorted is a sequence of indices into cams.
RECURSIVE InsertSorted(_, _, _)
InsertSorted(cams, sorted, i) ==
    IF sorted = <<>> THEN <<i>>
    ELSE IF SortKeyLess(cams[i], cams[Head(sorted)]) THEN <<i>> \o sorted
    ELSE <<Head(sorted)>> \o InsertSorted(cams, Tail(sorted), i)

RECURSIVE SortCams(_, _)
SortCams(cams, list) ==
    IF list = <<>> THEN <<>>
    ELSE InsertSorted(cams, SortCams(cams, SubSeq(list, 1, Len(list) - 1)),
                      list[Len(list)])

\* the cameras of the chunk that belong to pc, in the chunk's order
RECURSIVE Belonging(_, _, _)
Belonging(cams, pc, i) ==
    IF i > Len(cams) THEN <<>>
    ELSE (IF _camera_belongs_to_pointcloud(cams[i], pc) THEN <<i>> ELSE <<>>)
         \o Belonging(cams, pc, i + 1)

\* _attached_cameras: indices into cams (the camera objects), sorted
_attached_cameras(cams, pc) == SortCams(cams, Belonging(cams, pc, 1))

Min(a, b) == IF a < b THEN a ELSE b

\* a slip in the indices: the lists are aligned at their ends
PairingFromEnd(src_cams, new_cams) ==
    IF src_cams = <<>> \/ new_cams = <<>> THEN <<>>
    ELSE LET n == Min(Len(src_cams), Len(new_cams))
         IN  [i \in 1..n |-> <<src_cams[Len(src_cams) - n + i],
                               new_cams[Len(new_cams) - n + i]>>]

\* the pairs (src_cams[i], new_cams[i]) the copy loop walks: none when either
\* list is empty, else the first min(len, len) positions
Pairing(src_cams, new_cams) ==
    IF src_cams = <<>> \/ new_cams = <<>> THEN <<>>
    ELSE [i \in 1..Min(Len(src_cams), Len(new_cams)) |-> <<src_cams[i], new_cams[i]>>]

\* the loop "for cam in new_cams: _clear_camera_mask(cam)"
ClearAll(cams, new_cams) ==
    [i \in 1..Len(cams) |->
        IF \E j \in 1..Len(new_cams) : new_cams[j] = i
        THEN _clear_camera_mask(cams[i]) ELSE cams[i]]

\* the loop "for i in range(n)", from pair i on; st = [cameras, next_mask]
RECURSIVE CopyLoop(_, _, _)
CopyLoop(st, pairing, i) ==
    IF i > Len(pairing) THEN st
    ELSE LET src_mask == st.cameras[pairing[i][1]].mask
         IN  IF ~src_mask.present THEN CopyLoop(st, pairing, i + 1)
             ELSE CopyLoop(
                    [cameras |-> [st.cameras EXCEPT ![pairing[i][2]].mask =
                                     _copy_mask(src_mask, st.next_mask)],
                     next_mask |-> st.next_mask + 1],
                    pairing, i + 1)

\* _transfer_masks_from_src_to_new; the result is [cameras, next_mask]
_transfer_masks_from_src_to_new(cams, nextid, source, new) ==
    LET src_cams == _attached_cameras(cams, source)
        new_cams == _attached_cameras(cams, new)
        cleared == ClearAll(cams, new_cams)
    IN  CopyLoop([cameras |-> cleared, next_mask |-> nextid],
                 Pairing(src_cams, new_cams), 1)

\* the pairs of that transfer, by camera key
PairKeys(cams, source, new) ==
    LET p == Pairing(_attached_cameras(cams, source), _attached_cameras(cams, new))
    IN  [i \in 1..Len(p) |-> <<cams[p[i][1]].key, cams[p[i][2]].key>>]

-----------------------------------------------------------------------------
(* Values of the variables a specification does not use *)

IdleChunk ==
    /\ point_clouds = <<>>
    /\ group_transform = <<>>
    /\ cameras = <<>>
    /\ next_mask = 1

IdleDriver ==
    /\ folder = {}
    /\ phase = "idle"
    /\ e57_files = <<>>
    /\ fidx = 0
    /\ loaded_by_name = <<>>
    /\ existing_labels_lower = {}
    /\ src = NoKey
    /\ T_src_eff = None
    /\ new_pcs = <<>>
    /\ idx = 0
    /\ fstate = <<>>
    /\ matched = <<>>

IdleLabel ==
    /\ desired = <<>>
    /\ existing_lower = {}
    /\ label_out = <<>>

IdleMask ==
    /\ src_pc = NoKey
    /\ new_pc = NoKey
    /\ pairs = <<>>
    /\ pre_cameras = <<>>

-----------------------------------------------------------------------------
(* SpecLabel: _make_unique_label called on its own *)

MaxExisting == 3

LabelPool ==
    { <<"a">>, <<"A">>, <<"b">>, <<"B">>, <<"a", "_", "0", "2">>,
      <<"A", "_", "0", "2">>, <<"a", "_", "0", "3">> }

DesiredPool == { <<"a">>, <<"A">>, <<"b">> }

InitLabel ==
    /\ IdleChunk /\ IdleDriver /\ IdleMask
    /\ desired \in DesiredPool
    /\ existing_lower \in {e \in SUBSET LabelPool : Cardinality(e) <= MaxExisting}
    /\ label_out = <<>>
    /\ last = "init"

CallMakeUniqueLabel ==
    /\ last = "init"
    /\ label_out' = _make_unique_label(desired, existing_lower)
    /\ last' = "label"
    /\ UNCHANGED <<chunkVars, driverVars, maskVars, desired, existing_lower>>

NextLabel == CallMakeUniqueLabel

SpecLabel == InitLabel /\ [][NextLabel]_vars

\* x equals, case-insensitively, some label of the set
CollidesCI(x, labels) == \E e \in labels : Lower(e) = Lower(x)

AllLower(labels) == \A e \in labels : Lower(e) = e

\* the result the claim describes, with collision meaning CollidesCI
UniqueLabelAsClaimed(out, d, existing) ==
    /\ ~CollidesCI(d, existing) => out = d
    /\ CollidesCI(d, existing) =>
          \E n \in 2..(Cardinality(existing) + 2) :
              /\ out = Candidate(d, n)
              /\ ~CollidesCI(Candidate(d, n), existing)
              /\ \A m \in 2..(n - 1) : CollidesCI(Candidate(d, m), existing)
    /\ ~CollidesCI(out, existing)

\* C8 as stated: for every set of existing labels, whatever their case, the
\* result is desired when it collides case-insensitively with none of them,
\* else desired_NN with the smallest NN >= 2 that does not collide, and the
\* result never collides with an existing label.
C8_AnyExisting ==
    last = "label" => UniqueLabelAsClaimed(label_out, desired, existing_lower)

\* C8 amended: the same, when the set holds the labels in lower case (the
\* function compares the lower-cased candidate with the set's members as
\* they are stored).
C8_LowerExisting ==
    (last = "label" /\ AllLower(existing_lower))
        => UniqueLabelAsClaimed(label_out, desired, existing_lower)

\* {"a", "a_02"} with "A" gives "A_03"
C8_Witness ==
    /\ last = "label"
    /\ existing_lower = { <<"a">>, <<"a", "_", "0", "2">> }
    /\ desired = <<"A">>
    /\ label_out = <<"A", "_", "0", "3">>

-----------------------------------------------------------------------------
(* SpecPose: the alignment of one imported point cloud on its station *)

PoseMats == {I4, Tx, Rz, Rx}
GroupMats == {None, I4, Tx, Rz}

PointCloud(k, l, T, g, e, ls) ==
    [key |-> k, label |-> l, transform |-> T, group |-> g, enabled |-> e,
     is_laser_scan |-> ls]

InitPose ==
    /\ IdleLabel /\ IdleMask
    /\ \E Ts \in PoseMats, Tn \in PoseMats, gs \in {NoGroup, 1}, gn \in {NoGroup, 2} :
          point_clouds = << PointCloud(1, <<"a">>, Ts, gs, TRUE, TRUE),
                            PointCloud(2, <<"a">>, Tn, gn, TRUE, TRUE) >>
    /\ group_transform \in [{1, 2} -> GroupMats]
    /\ cameras = <<>>
    /\ next_mask = 1
    /\ folder = {} /\ e57_files = <<>> /\ fidx = 0 /\ loaded_by_name = <<>>
    /\ existing_labels_lower = {} /\ new_pcs = <<2>> /\ idx = 1
    /\ fstate = <<>> /\ matched = <<>>
    /\ src = 1
    /\ T_src_eff = None
    /\ phase = "pose"
    /\ last = "init"

\* T_src_eff is captured, then the imported point cloud adopts the group,
\* delta is computed from its raw effective transform and applied
PoseAlign ==
    /\ phase = "pose"
    /\ LET source == point_clouds[1]
           grouped == AdoptGroup(point_clouds[2], source)
           T_new0_eff == _effective_T(grouped)
       IN  /\ Invertible(T_new0_eff)
           /\ T_src_eff' = _effective_T(source)
           /\ point_clouds' =
                 [point_clouds EXCEPT ![2] =
                    _apply_delta_to_pc_transform(
                        grouped, Delta(_effective_T(source), Inv(T_new0_eff)))]
    /\ phase' = "posed"
    /\ last' = "align"
    /\ UNCHANGED <<group_transform, cameras, next_mask, folder, e57_files, fidx,
                   loaded_by_name, existing_labels_lower, src, new_pcs, idx,
                   fstate, matched, labelVars, maskVars>>

NextPose == PoseAlign

SpecPose == InitPose /\ [][NextPose]_vars

\* C1: after the delta is applied, the effective transform of the imported
\* point cloud, recomputed through its group, equals the effective
\* transform of the station captured before.
C1_EffectiveEqualsReference ==
    phase = "posed" => _effective_T(point_clouds[2]) = T_src_eff

\* the same, for point clouds that end the step outside every group
C1_NoGroup ==
    (phase = "posed" /\ point_clouds[2].group = NoGroup)
        => _effective_T(point_clouds[2]) = T_src_eff

-----------------------------------------------------------------------------
(* SpecPair and SpecMask: one mask transfer between two point clouds *)

MaxCams == 3

CamLabels == { <<"a">>, <<"b">> }

\* <<point_cloud, dense_cloud_id>> of a camera; 1 is the key of the source
\* point cloud, 2 the key of the new one
LinkPool == { <<1, NoKey>>, <<2, NoKey>>, <<NoKey, 1>>, <<NoKey, 2>>, <<1, 2>>,
              <<NoKey, NoKey>> }

Camera(k, l, link, m) ==
    [key |-> k, label |-> l, point_cloud |-> link[1], dense_cloud_id |-> link[2],
     mask |-> m]

\* a mask object of its own for the camera with key k
OwnMask(k) == [present |-> TRUE, id |-> k, content |-> k]

TwoPointClouds ==
    << PointCloud(1, <<"a">>, I4, NoGroup, TRUE, TRUE),
       PointCloud(2, <<"a", "_", "n", "e", "w">>, I4, NoGroup, TRUE, TRUE) >>

InitTransfer ==
    /\ IdleDriver /\ IdleLabel
    /\ point_clouds = TwoPointClouds
    /\ group_transform = <<>>
    /\ next_mask = MaxCams + 1
    /\ src_pc = 1
    /\ new_pc = 2
    /\ pairs = <<>>
    /\ pre_cameras = <<>>
    /\ last = "init"

\* the links of the cameras of InitPair: to the source by point_cloud, to
\* the new point cloud by dense_cloud_id, to both, to neither
PairLinkPool == { <<1, NoKey>>, <<NoKey, 2>>, <<1, 2>>, <<NoKey, NoKey>> }

\* every listing order of MaxCams cameras that all hold a mask
InitPair ==
    /\ InitTransfer
    /\ \E order \in Permutations(1..MaxCams),
          label \in [1..MaxCams -> CamLabels],
          link \in [1..MaxCams -> PairLinkPool] :
          cameras = [i \in 1..MaxCams |->
                        Camera(order[i], label[order[i]], link[order[i]],
                               OwnMask(order[i]))]

\* MaxCams cameras, with or without a mask, listed by ascending or by
\* descending key
InitMask ==
    /\ InitTransfer
    /\ \E down \in BOOLEAN,
          label \in [1..MaxCams -> CamLabels],
          link \in [1..MaxCams -> LinkPool],
          masked \in [1..MaxCams -> BOOLEAN] :
          cameras = [i \in 1..MaxCams |->
                        LET k == IF down THEN MaxCams + 1 - i ELSE i
                        IN  Camera(k, label[k], link[k],
                                   IF masked[k] THEN OwnMask(k) ELSE NoMask)]

Transfer ==
    /\ last = "init"
    /\ LET r == _transfer_masks_from_src_to_new(
                    cameras, next_mask, point_clouds[src_pc], point_clouds[new_pc])
       IN  /\ cameras' = r.cameras
           /\ next_mask' = r.next_mask
    /\ pairs' = PairKeys(cameras, point_clouds[src_pc], point_clouds[new_pc])
    /\ pre_cameras' = cameras
    /\ last' = "transfer"
    /\ UNCHANGED <<point_clouds, group_transform, driverVars, labelVars, src_pc, new_pc>>

NextTransfer == Transfer

SpecPair == InitPair /\ [][NextTransfer]_vars

SpecMask == InitMask /\ [][NextTransfer]_vars

\* the cameras of a listing that belong to the point cloud with key k
CamsOf(cams, k) ==
    {i \in 1..Len(cams) : _camera_belongs_to_pointcloud(cams[i], point_clouds[k])}

\* position of camera i among the cameras of set S, in the order (label
\* ascending, then key ascending): one more than the cameras below it
Rank(cams, S, i) ==
    1 + Cardinality({j \in S : \/ StrLess(cams[j].label, cams[i].label)
                                \/ /\ cams[j].label = cams[i].label
                                   /\ cams[j].key < cams[i].key})

IndexOfKey(cams, k) == CHOOSE i \in 1..Len(cams) : cams[i].key = k

\* the listing cams read in the order given by the permutation
Relisted(cams, order) == [i \in 1..Len(cams) |-> cams[order[i]]]

\* C5: the pairs of a transfer are those of every other listing order of the
\* same cameras (the keys of the cameras are distinct).
C5_PairingIgnoresListingOrder ==
    last = "transfer" =>
        \A order \in Permutations(1..Len(pre_cameras)) :
            PairKeys(Relisted(pre_cameras, order), point_clouds[src_pc],
                     point_clouds[new_pc]) = pairs

\* two cameras with the same label are listed in both orders and are paired
C5_Witness ==
    /\ last = "transfer"
    /\ Len(pairs) = 2
    /\ pre_cameras[1].label = pre_cameras[2].label
    /\ pre_cameras[1].key > pre_cameras[2].key
    /\ {1, 2} \subseteq CamsOf(pre_cameras, src_pc)

\* C6: the pairing has min(|S|, |T|) pairs and its i-th pair is the i-th
\* smallest camera of S with the i-th smallest camera of T.
C6_PairingIsSortedZip ==
    last = "transfer" =>
        LET S == CamsOf(pre_cameras, src_pc)
            T == CamsOf(pre_cameras, new_pc)
        IN  /\ Len(pairs) = Min(Cardinality(S), Cardinality(T))
            /\ \A i \in 1..Len(pairs) :
                  LET s == IndexOfKey(pre_cameras, pairs[i][1])
                      n == IndexOfKey(pre_cameras, pairs[i][2])
                  IN  /\ s \in S /\ Rank(pre_cameras, S, s) = i
                      /\ n \in T /\ Rank(pre_cameras, T, n) = i

\* more source cameras than new ones: the largest source camera is unpaired
C6_Witness ==
    /\ last = "transfer"
    /\ Cardinality(CamsOf(pre_cameras, src_pc)) = 2
    /\ Cardinality(CamsOf(pre_cameras, new_pc)) = 1
    /\ Len(pairs) = 1

\* what C3 says of the new cameras after a transfer, from the masks the
\* source cameras held when it was called
MasksAsTransferred(before, after, s, n) ==
    \A i \in 1..Len(n) :
        IF i <= Min(Len(s), Len(n))
        THEN IF before[s[i]].mask.present
             THEN /\ after[n[i]].mask.present
                  /\ after[n[i]].mask.content = before[s[i]].mask.content
                  /\ \A j \in 1..Len(before) : after[n[i]].mask.id # before[j].mask.id
             ELSE ~after[n[i]].mask.present
        ELSE ~after[n[i]].mask.present

\* C3: after a transfer the i-th new camera holds a copy of the mask the
\* i-th source camera held, or no mask when that one held none, and every
\* new camera beyond the shorter list holds no mask.
C3_MasksTransferred ==
    last = "transfer" =>
        MasksAsTransferred(pre_cameras, cameras,
            _attached_cameras(pre_cameras, point_clouds[src_pc]),
            _attached_cameras(pre_cameras, point_clouds[new_pc]))

\* C10: a transfer leaves the mask of every camera of the source point cloud
\* as it was.
C10_SourceMasksUnchanged ==
    last = "transfer" =>
        \A i \in CamsOf(pre_cameras, src_pc) : cameras[i].mask = pre_cameras[i].mask

\* no camera belongs to both point clouds of the transfer
NoSharedCamera ==
    CamsOf(pre_cameras, src_pc) \cap CamsOf(pre_cameras, new_pc) = {}

\* C3 and C10 hold of the transfers in which no camera is shared
TransferWithoutSharedCamera ==
    (last = "transfer" /\ NoSharedCamera) =>
        /\ MasksAsTransferred(pre_cameras, cameras,
              _attached_cameras(pre_cameras, point_clouds[src_pc]),
              _attached_cameras(pre_cameras, point_clouds[new_pc]))
        /\ \A i \in CamsOf(pre_cameras, src_pc) : cameras[i].mask = pre_cameras[i].mask

-----------------------------------------------------------------------------
(* Spec: the script, importar_e57_y_aplicar_delta_y_mascaras *)

MaxFiles == 2       \* files in the selected folder
MaxNew == 2         \* point clouds one import call adds
NumPre == 2         \* point clouds of the chunk before the run

E57 == <<".", "e", "5", "7">>
NewSuffix == <<"_", "n", "e", "w">>

FilePool ==
    { <<"a">> \o E57, <<" ", "a">> \o E57, <<" ">> \o E57,
      <<"b">> \o <<".", "E", "5", "7">>, <<"a", ".", "b">> }

PreLabels == { <<"a">>, <<" ", "A">>, <<" ", "a">> \o NewSuffix, <<" ">> }

\* transforms of the point clouds an import adds
ImportMats == {None, Rz, Sing}

\* what inv() may return for a singular matrix when it does not raise
InvGarbage == {I4, Sing}

\* f.lower().endswith(".e57")
EndsWithE57(f) ==
    Len(f) >= 4 /\ Lower(SubSeq(f, Len(f) - 3, Len(f))) = E57

\* p.rfind("."), 0 when there is no dot
RECURSIVE LastDot(_, _)
LastDot(f, i) == IF i = 0 THEN 0 ELSE IF f[i] = "." THEN i ELSE LastDot(f, i - 1)

\* os.path.splitext(fname)[0]: the name up to its last dot, unless only dots
\* come before that dot
SplitExtBase(f) ==
    LET d == LastDot(f, Len(f))
    IN  IF d > 0 /\ \E i \in 1..(d - 1) : f[i] # "."
        THEN SubSeq(f, 1, d - 1)
        ELSE f

\* sorted(...) of a set of names
RECURSIVE SortedNames(_)
SortedNames(names) ==
    IF names = {} THEN <<>>
    ELSE LET m == CHOOSE x \in names : \A y \in names \ {x} : StrLess(x, y)
         IN  <<m>> \o SortedNames(names \ {m})

\* a slip in the duplicate check: a later point cloud of a key replaces the
\* earlier one
RECURSIVE LoadedByNameLastWins(_, _, _)
LoadedByNameLastWins(laser_scans, i, acc) ==
    IF i > Len(laser_scans) THEN acc
    ELSE LET k == _norm_name(laser_scans[i].label)
         IN  IF k = <<>>
             THEN LoadedByNameLastWins(laser_scans, i + 1, acc)
             ELSE LoadedByNameLastWins(laser_scans, i + 1,
                    (k :> laser_scans[i].key) @@ acc)

\* the loop that fills loaded_by_name from laser_scans[i..]: empty keys are
\* skipped and the first point cloud of a key is kept; acc maps keys to
\* point cloud keys
RECURSIVE LoadedByName(_, _, _)
LoadedByName(laser_scans, i, acc) ==
    IF i > Len(laser_scans) THEN acc
    ELSE LET k == _norm_name(laser_scans[i].label)
         IN  IF k = <<>> \/ k \in DOMAIN acc
             THEN LoadedByName(laser_scans, i + 1, acc)
             ELSE LoadedByName(laser_scans, i + 1, acc @@ (k :> laser_scans[i].key))

\* [pc for pc in pcs if pc.is_laser_scan]
LaserScans(pcs) == SelectSeq(pcs, LAMBDA pc : pc.is_laser_scan)

\* {_norm_name(pc.label) for pc in pcs if pc.label}
ExistingLabelsLower(pcs) ==
    {_norm_name(pcs[i].label) : i \in {j \in 1..Len(pcs) : pcs[j].label # <<>>}}

PcIndex(k) == CHOOSE i \in 1..Len(point_clouds) : point_clouds[i].key = k
Pc(k) == point_clouds[PcIndex(k)]

Init ==
    /\ IdleLabel /\ IdleMask
    /\ \E label \in [1..NumPre -> PreLabels],
          T \in [1..NumPre -> {None, Tx}],
          ls \in [1..NumPre -> BOOLEAN] :
          \* the script never reads the transform of a point cloud that is no
          \* laser scan: those all have one
          /\ \A k \in 1..NumPre : ~ls[k] => T[k] # None
          /\ point_clouds = [k \in 1..NumPre |->
               PointCloud(k, label[k], T[k], IF k = 1 THEN 1 ELSE NoGroup, FALSE, ls[k])]
    /\ group_transform = <<Rz>>
    /\ cameras = [k \in 1..NumPre |-> Camera(k, <<"a">>, <<k, NoKey>>, OwnMask(k))]
    /\ next_mask = NumPre + 1
    /\ folder \in {fs \in SUBSET FilePool : Cardinality(fs) <= MaxFiles}
    /\ phase = "start"
    /\ e57_files = <<>>
    /\ fidx = 0
    /\ loaded_by_name = <<>>
    /\ existing_labels_lower = {}
    /\ src = NoKey
    /\ T_src_eff = None
    /\ new_pcs = <<>>
    /\ idx = 0
    /\ fstate = <<>>
    /\ matched = <<>>
    /\ last = "init"

E57Names == {f \in folder : EndsWithE57(f)}

\* getExistingDirectory returns nothing: "Operation cancelled", return
NoFolder ==
    /\ phase = "start"
    /\ phase' = "returned"
    /\ last' = "no_folder"
    /\ UNCHANGED <<chunkVars, folder, e57_files, fidx, loaded_by_name,
                   existing_labels_lower, src, T_src_eff, new_pcs, idx, fstate,
                   matched, labelVars, maskVars>>

\* "No .e57 files found": return
NoFiles ==
    /\ phase = "start"
    /\ E57Names = {}
    /\ phase' = "returned"
    /\ last' = "no_files"
    /\ UNCHANGED <<chunkVars, folder, e57_files, fidx, loaded_by_name,
                   existing_labels_lower, src, T_src_eff, new_pcs, idx, fstate,
                   matched, labelVars, maskVars>>

\* "No TLS laser scans found": return
NoLaserScans ==
    /\ phase = "start"
    /\ E57Names # {}
    /\ LaserScans(point_clouds) = <<>>
    /\ e57_files' = SortedNames(E57Names)
    /\ phase' = "returned"
    /\ last' = "no_laser_scans"
    /\ UNCHANGED <<chunkVars, folder, fidx, loaded_by_name, existing_labels_lower,
                   src, T_src_eff, new_pcs, idx, fstate, matched, labelVars, maskVars>>

\* the pre-flight checks pass: the files are sorted, the stations mapped by
\* normalized label and the known labels collected
Begin ==
    /\ phase = "start"
    /\ E57Names # {}
    /\ LaserScans(point_clouds) # <<>>
    /\ e57_files' = SortedNames(E57Names)
    /\ loaded_by_name' = LoadedByName(LaserScans(point_clouds), 1, <<>>)
    /\ existing_labels_lower' = ExistingLabelsLower(point_clouds)
    /\ fstate' = [f \in E57Names |-> "DISCOVERED"]
    /\ matched' = [f \in E57Names |-> [ref |-> NoKey, imported |-> FALSE]]
    /\ fidx' = 1
    /\ phase' = "loop"
    /\ last' = "begin"
    /\ UNCHANGED <<chunkVars, folder, src, T_src_eff, new_pcs, idx, labelVars, maskVars>>

fname == e57_files[fidx]
base == SplitExtBase(fname)

\* the for loop moves on to the next file, or ends after the last one
NextFile ==
    /\ fidx' = fidx + 1
    /\ phase' = IF fidx = Len(e57_files) THEN "finished" ELSE "loop"
    /\ src' = NoKey
    /\ T_src_eff' = None
    /\ new_pcs' = <<>>
    /\ idx' = 0

\* key not in loaded_by_name: continue
FileNoMatch ==
    /\ phase = "loop"
    /\ _norm_name(base) \notin DOMAIN loaded_by_name
    /\ fstate' = [fstate EXCEPT ![fname] = "SKIPPED"]
    /\ NextFile
    /\ last' = "no_match"
    /\ UNCHANGED <<chunkVars, folder, e57_files, loaded_by_name,
                   existing_labels_lower, matched, labelVars, maskVars>>

\* the station has no transform: SKIP, continue
FileNoTransform ==
    /\ phase = "loop"
    /\ _norm_name(base) \in DOMAIN loaded_by_name
    /\ Pc(loaded_by_name[_norm_name(base)]).transform = None
    /\ matched' = [matched EXCEPT ![fname].ref = loaded_by_name[_norm_name(base)]]
    /\ fstate' = [fstate EXCEPT ![fname] = "SKIPPED"]
    /\ NextFile
    /\ last' = "no_transform"
    /\ UNCHANGED <<chunkVars, folder, e57_files, loaded_by_name,
                   existing_labels_lower, labelVars, maskVars>>

Matches ==
    /\ phase = "loop"
    /\ _norm_name(base) \in DOMAIN loaded_by_name
    /\ Pc(loaded_by_name[_norm_name(base)]).transform # None

\* chunk.importPointCloud adds nothing: ERROR, continue
ImportNothing ==
    /\ Matches
    /\ matched' = [matched EXCEPT ![fname] =
                      [ref |-> loaded_by_name[_norm_name(base)], imported |-> TRUE]]
    /\ fstate' = [fstate EXCEPT ![fname] = "SKIPPED"]
    /\ NextFile
    /\ last' = "import_nothing"
    /\ UNCHANGED <<chunkVars, folder, e57_files, loaded_by_name,
                   existing_labels_lower, labelVars, maskVars>>

\* chunk.importPointCloud adds n point clouds (n between 1 and most), labelled by
\* the host after the file, each with one camera that holds a mask; new_pcs
\* are the point clouds whose keys were not there before
ImportSome(most) ==
    /\ Matches
    /\ \E n \in 1..most : \E T \in [1..n -> ImportMats] :
          LET first == Len(point_clouds)
              cam0 == Len(cameras)
          IN  /\ point_clouds' = point_clouds \o
                    [j \in 1..n |-> PointCloud(first + j, base, T[j], NoGroup, TRUE, TRUE)]
              /\ cameras' = cameras \o
                    [j \in 1..n |-> Camera(cam0 + j, <<"a">>, <<first + j, NoKey>>,
                                           [present |-> TRUE, id |-> next_mask + j - 1,
                                            content |-> next_mask + j - 1])]
              /\ next_mask' = next_mask + n
              /\ new_pcs' = [j \in 1..n |-> first + j]
    /\ src' = loaded_by_name[_norm_name(base)]
    /\ T_src_eff' = _effective_T(Pc(loaded_by_name[_norm_name(base)]))
    /\ matched' = [matched EXCEPT ![fname] =
                      [ref |-> loaded_by_name[_norm_name(base)], imported |-> TRUE]]
    /\ fstate' = [fstate EXCEPT ![fname] = "IMPORTED"]
    /\ idx' = 1
    /\ phase' = "entities"
    /\ last' = "import"
    /\ UNCHANGED <<group_transform, folder, e57_files, fidx, loaded_by_name,
                   existing_labels_lower, labelVars, maskVars>>

\* desired = f"{base}_new" if idx == 1 else f"{base}_new_{idx:02d}"
DesiredLabel(b, i) ==
    IF i = 1 THEN b \o NewSuffix ELSE b \o NewSuffix \o <<"_">> \o Fmt02d(i)

\* the point cloud of this iteration once it is labelled and has adopted the
\* station's group
Labelled ==
    LET new_label == _make_unique_label(DesiredLabel(base, idx), existing_labels_lower)
    IN  AdoptGroup([Pc(new_pcs[idx]) EXCEPT !.label = new_label], Pc(src))

\* the for loop over new_pcs moves on, or the file is finished
NextNewPc(aligned) ==
    IF idx < Len(new_pcs)
    THEN /\ idx' = idx + 1
         /\ fstate' = IF aligned THEN [fstate EXCEPT ![fname] = "MASK_TRANSFERRED"]
                       ELSE fstate
         /\ UNCHANGED <<fidx, phase, src, T_src_eff, new_pcs>>
    ELSE /\ fstate' = [fstate EXCEPT ![fname] =
                          IF aligned \/ fstate[fname] = "MASK_TRANSFERRED"
                          THEN "DONE" ELSE "SKIPPED"]
         /\ NextFile

\* what every iteration over new_pcs does first: the label is assigned and
\* added to the known labels
Labelling ==
    /\ desired' = DesiredLabel(base, idx)
    /\ label_out' = Labelled.label
    /\ existing_labels_lower' = existing_labels_lower \cup {_norm_name(Labelled.label)}
    /\ new_pc' = new_pcs[idx]
    /\ src_pc' = src

\* the imported point cloud has no transform: ERROR, continue
EntityNoTransform ==
    /\ phase = "entities"
    /\ _effective_T(Labelled) = None
    /\ Labelling
    /\ point_clouds' = [point_clouds EXCEPT ![PcIndex(new_pcs[idx])] = Labelled]
    /\ NextNewPc(FALSE)
    /\ last' = "entity_no_transform"
    /\ UNCHANGED <<group_transform, cameras, next_mask, folder, e57_files,
                   loaded_by_name, matched, existing_lower, pairs, pre_cameras>>

\* delta is computed with the given result of inv() and applied, the enabled
\* flag copied and the masks transferred
AlignWith(inverse) ==
    LET new == KeepEnabled(
                  _apply_delta_to_pc_transform(Labelled, Delta(T_src_eff, inverse)),
                  Pc(src))
        r == _transfer_masks_from_src_to_new(cameras, next_mask, Pc(src), new)
    IN  /\ point_clouds' = [point_clouds EXCEPT ![PcIndex(new_pcs[idx])] = new]
        /\ cameras' = r.cameras
        /\ next_mask' = r.next_mask
        /\ pairs' = PairKeys(cameras, Pc(src), new)
        /\ pre_cameras' = cameras

\* the raw effective transform is invertible
EntityAlign ==
    /\ phase = "entities"
    /\ Invertible(_effective_T(Labelled))
    /\ Labelling
    /\ AlignWith(Inv(_effective_T(Labelled)))
    /\ NextNewPc(TRUE)
    /\ last' = "entity_align"
    /\ UNCHANGED <<group_transform, folder, e57_files, loaded_by_name, matched,
                   existing_lower>>

Singular(T) == T # None /\ Det(T) = 0

\* the raw effective transform is singular and inv() raises: nothing
\* catches the exception and the script ends
EntitySingularRaise ==
    /\ phase = "entities"
    /\ Singular(_effective_T(Labelled))
    /\ Labelling
    /\ point_clouds' = [point_clouds EXCEPT ![PcIndex(new_pcs[idx])] = Labelled]
    /\ phase' = "aborted"
    /\ last' = "entity_raise"
    /\ UNCHANGED <<group_transform, cameras, next_mask, folder, e57_files, fidx,
                   loaded_by_name, src, T_src_eff, new_pcs, idx, fstate, matched,
                   existing_lower, pairs, pre_cameras>>

\* the raw effective transform is singular and inv() returns some matrix:
\* the script goes on with it
EntitySingularGarbage ==
    /\ phase = "entities"
    /\ Singular(_effective_T(Labelled))
    /\ Labelling
    /\ \E X \in InvGarbage : AlignWith(X)
    /\ NextNewPc(TRUE)
    /\ last' = "entity_garbage"
    /\ UNCHANGED <<group_transform, folder, e57_files, loaded_by_name, matched,
                   existing_lower>>

Next ==
    \/ NoFolder
    \/ NoFiles
    \/ NoLaserScans
    \/ Begin
    \/ FileNoMatch
    \/ FileNoTransform
    \/ ImportNothing
    \/ ImportSome(MaxNew)
    \/ EntityNoTransform
    \/ EntityAlign
    \/ EntitySingularRaise
    \/ EntitySingularGarbage

Spec == Init /\ [][Next]_vars

\* the script on files that hold one point cloud each
NextSingle ==
    \/ NoFolder
    \/ NoFiles
    \/ NoLaserScans
    \/ Begin
    \/ FileNoMatch
    \/ FileNoTransform
    \/ ImportNothing
    \/ ImportSome(1)
    \/ EntityNoTransform
    \/ EntityAlign
    \/ EntitySingularRaise
    \/ EntitySingularGarbage

SpecSingle == Init /\ [][NextSingle]_vars

-----------------------------------------------------------------------------
(* Properties of the script *)

Processed == {f \in DOMAIN fstate : fstate[f] # "DISCOVERED"}

\* s without its leading and trailing spaces
Trimmed(s) ==
    LET inked == {i \in 1..Len(s) : s[i] # " "}
    IN  IF inked = {} THEN <<>>
        ELSE SubSeq(s, CHOOSE i \in inked : \A j \in inked : i <= j,
                       CHOOSE i \in inked : \A j \in inked : i >= j)

CasePairs == { <<"A", "a">>, <<"B", "b">>, <<"E", "e">> }

\* two characters that differ at most by case
SameLetter(c, d) ==
    c = d \/ <<c, d>> \in CasePairs \/ <<d, c>> \in CasePairs
          \/ \E x \in CasePairs, y \in CasePairs : x[2] = y[2] /\ x[1] = c /\ y[1] = d

\* equal after trimming surrounding whitespace and case folding
SameName(a, b) ==
    /\ Len(Trimmed(a)) = Len(Trimmed(b))
    /\ \A i \in 1..Len(Trimmed(a)) : SameLetter(Trimmed(a)[i], Trimmed(b)[i])

\* the laser scans of the chunk before the run whose label is the name of
\* file f after trimming and case folding, by position in project order
ReferencesOf(f) ==
    {i \in 1..NumPre : /\ point_clouds[i].is_laser_scan
                       /\ SameName(point_clouds[i].label, SplitExtBase(f))}

FirstOf(positions) ==
    IF positions = {} THEN NoKey
    ELSE point_clouds[CHOOSE i \in positions : \A j \in positions : i <= j].key

\* C7 as stated: a processed file is matched to the first laser scan whose
\* label equals its base name after trimming and case folding, and a file
\* without such a laser scan is matched to none and is not imported.
C7_MatchedToFirstSameName ==
    \A f \in Processed :
        /\ matched[f].ref = FirstOf(ReferencesOf(f))
        /\ matched[f].ref = NoKey => ~matched[f].imported

\* C7 amended: the same, for names that are not empty after trimming; a
\* file or a laser scan whose trimmed name is empty is matched to nothing.
C7_MatchedToFirstSameNonEmptyName ==
    \A f \in Processed :
        /\ matched[f].ref =
              IF Trimmed(SplitExtBase(f)) = <<>> THEN NoKey ELSE FirstOf(ReferencesOf(f))
        /\ matched[f].ref = NoKey => ~matched[f].imported

\* " a.e57" is matched to the first of two laser scans named alike
C7_Witness ==
    /\ <<" ", "a">> \o E57 \in Processed
    /\ Cardinality(ReferencesOf(<<" ", "a">> \o E57)) = 2
    /\ point_clouds[1].label # point_clouds[2].label
    /\ matched[<<" ", "a">> \o E57].ref = 1

LabelSteps ==
    {"entity_no_transform", "entity_align", "entity_raise", "entity_garbage"}

\* C2: the label just assigned to an imported point cloud differs, case
\* aside, from the label of every other point cloud of the chunk.
C2_AssignedLabelUnique ==
    last \in LabelSteps =>
        \A i \in 1..Len(point_clouds) :
            point_clouds[i].key # new_pc
                => Lower(point_clouds[i].label) # Lower(Pc(new_pc).label)

\* the point clouds that are there in both states keep all their fields
NothingMutated ==
    /\ \A i \in 1..Len(point_clouds) : point_clouds'[i] = point_clouds[i]
    /\ \A i \in 1..Len(cameras) : cameras'[i] = cameras[i]

\* C4: a step that finds the raw effective transform of the imported point
\* cloud singular changes no label, transform, group, enabled flag or mask.
C4_SingularMutatesNothing ==
    [][(phase = "entities" /\ Singular(_effective_T(Labelled))) => NothingMutated]_vars

\* C9: once the pre-flight checks have passed, the run ends with every
\* discovered file DONE or SKIPPED.
C9_EveryFileDoneOrSkipped ==
    phase \in {"finished", "aborted"} =>
        \A f \in DOMAIN fstate : fstate[f] \in {"DONE", "SKIPPED"}

\* the files are taken in ascending order of name, one at a time
FilesInOrder ==
    phase \in {"loop", "entities"} =>
        /\ \A i \in 1..(Len(e57_files) - 1) : StrLess(e57_files[i], e57_files[i + 1])
        /\ \A i \in 1..Len(e57_files) :
              (i < fidx => fstate[e57_files[i]] \in {"DONE", "SKIPPED"})
              /\ (i > fidx => fstate[e57_files[i]] = "DISCOVERED")

====
